---- MODULE Spec2Model ----
(***************************************************************************)
(* Model of the Person/Address/Age/Job service (src/main.py).              *)
(*                                                                         *)
(* The program state is the four module-level dictionaries.  Every HTTP    *)
(* handler is one action.  A handler step records the request it served    *)
(* in req and the status and body it produced in resp; Respond is the      *)
(* framework handing that response to the client, after which the next     *)
(* request is dispatched (requests are dispatched one at a time).          *)
(***************************************************************************)
EXTENDS Integers, Sequences, FiniteSets, TLC

VARIABLES addresses, persons, ages, jobs, req, resp, before, created, threads

vars == <<addresses, persons, ages, jobs, req, resp, before, created, threads>>

\* The four stores, by name.
Tables ==
    [addresses |-> addresses, persons |-> persons, ages |-> ages, jobs |-> jobs]

-----------------------------------------------------------------------------
(* Values *)

\* Python's None.
NULL == "None"

\* String values a client may send for a free-form string field.
Str == {"A", "B"}

\* No record / no payload: the empty mapping.
Empty == [f \in {} |-> NULL]

\* A mapping restricted to a set of its keys.
Restrict(m, S) == [k \in S |-> m[k]]

\* The values of a dictionary, dict.values(), as a set.
Values(m) == {m[k] : k \in DOMAIN m}

\* d[k] = v
DictSet(d, k, v) == [x \in DOMAIN d \cup {k} |-> IF x = k THEN v ELSE d[x]]

\* d.get(k) in place of d.pop(k): nothing is removed.
DictPopKeeps(d, k) == d

\* d.pop(k)
DictPop(d, k) == [x \in DOMAIN d \ {k} |-> d[x]]

\* dict.update with the operands exchanged: the stored values win.
DictUpdateStoredWins(stored, upd) ==
    [f \in DOMAIN stored \cup DOMAIN upd |->
        IF f \in DOMAIN stored THEN stored[f] ELSE upd[f]]

\* dict.update: the keys of upd overwrite, the others are kept.
DictUpdate(stored, upd) ==
    [f \in DOMAIN stored \cup DOMAIN upd |->
        IF f \in DOMAIN upd THEN upd[f] ELSE stored[f]]

\* results = [a for a in results if a.<f> == q[f]], when the filter is given.
FilterBy(results, q, f) ==
    IF f \in DOMAIN q THEN {a \in results : a[f] = q[f]} ELSE results

RECURSIVE ApplyFilters(_, _, _, _)
ApplyFilters(results, q, order, i) ==
    IF i > Len(order) THEN results
    ELSE ApplyFilters(FilterBy(results, q, order[i]), q, order, i + 1)

\* Both request slots are empty between requests.
NoReq == [op |-> "none", key |-> "-", payload |-> Empty]

NoResp == [status |-> 0, body |-> Empty]

\* before is a history variable: the stores as the request being served found them.
NoBefore == [addresses |-> Empty, persons |-> Empty, ages |-> Empty, jobs |-> Empty]

\* created is a history variable: the most recent successful Create whose
\* key no later request has written (see Track).
NoCreate == [table |-> "none", key |-> "-", body |-> Empty]

Request(op, key, payload) == [op |-> op, key |-> key, payload |-> payload]

Response(status, body) == [status |-> status, body |-> body]

\* raise HTTPException(status_code, detail)
HTTPException(status, detail) == [status |-> status, body |-> detail]

-----------------------------------------------------------------------------
(* Health and root *)

\* datetime.utcnow().isoformat(): the clock readings of this model.
UtcNow == {"2025-09-01T12:00:00", "2025-09-01T12:00:01.500000"}

\* socket.gethostbyname(socket.gethostname()): an address, or socket.gaierror.
HostLookups == {"10.0.0.5", "gaierror"}

\* Health(...) as make_health fills it.
make_health(echo, path_echo, now, ip) ==
    [status |-> 200, status_message |-> "OK", timestamp |-> now \o "Z",
     ip_address |-> ip, echo |-> echo, path_echo |-> path_echo]

get_health_no_path(echo) ==
    /\ req' = Request("get_health_no_path", "-", [echo |-> echo])
    /\ \E now \in UtcNow, ip \in HostLookups :
          resp' = IF ip = "gaierror"
                  THEN HTTPException(500, "Internal Server Error")
                  ELSE Response(200, make_health(echo, NULL, now, ip))
    /\ UNCHANGED <<addresses, persons, ages, jobs>>

get_health_with_path(path_echo, echo) ==
    /\ req' = Request("get_health_with_path", path_echo, [echo |-> echo])
    /\ \E now \in UtcNow, ip \in HostLookups :
          resp' = IF ip = "gaierror"
                  THEN HTTPException(500, "Internal Server Error")
                  ELSE Response(200, make_health(echo, path_echo, now, ip))
    /\ UNCHANGED <<addresses, persons, ages, jobs>>

root ==
    /\ req' = Request("root", "-", Empty)
    /\ resp' = Response(200,
          [message |-> "Welcome to the Person/Address/Age/Job API. See /docs for OpenAPI UI."])
    /\ UNCHANGED <<addresses, persons, ages, jobs>>

-----------------------------------------------------------------------------
(* Addresses *)

AddressIds == {"a1", "a2"}

AddressFields == {"street", "city", "state", "postal_code", "country"}

\* The order in which list_addresses applies its filters.
AddressFilterOrder == <<"street", "city", "state", "postal_code", "country">>

\* AddressRead(**d) on a stored, merged mapping: whether a null passes the
\* schema depends on the field's declaration, which either accepts or rejects it.
AddressReadOutcomes(d) ==
    IF \E f \in AddressFields : d[f] = NULL THEN {TRUE, FALSE} ELSE {TRUE}

\* AddressUpdate(body): the update schema has the five fields and no id; any
\* other key of the body is dropped.
AddressUpdate(body) == Restrict(body, DOMAIN body \cap AddressFields)

\* list_addresses without its last filter.
list_addresses_result_no_country(q) ==
    ApplyFilters(Values(addresses), q, SubSeq(AddressFilterOrder, 1, 4), 1)

list_addresses_result(q) ==
    ApplyFilters(Values(addresses), q, AddressFilterOrder, 1)

\* create_address without the existence check.
create_address_overwrites(address) ==
    /\ req' = Request("create_address", address.id, address)
    /\ addresses' = DictSet(addresses, address.id, address)
    /\ resp' = Response(201, address)
    /\ UNCHANGED <<persons, ages, jobs>>

create_address(address) ==
    /\ req' = Request("create_address", address.id, address)
    /\ IF address.id \in DOMAIN addresses
       THEN /\ resp' = HTTPException(400, "Address with this ID already exists")
            /\ UNCHANGED addresses
       ELSE /\ addresses' = DictSet(addresses, address.id, address)
            /\ resp' = Response(201, address)
    /\ UNCHANGED <<persons, ages, jobs>>

list_addresses(q) ==
    /\ req' = Request("list_addresses", "-", q)
    /\ resp' = Response(200, list_addresses_result(q))
    /\ UNCHANGED <<addresses, persons, ages, jobs>>

get_address(address_id) ==
    /\ req' = Request("get_address", address_id, Empty)
    /\ resp' = IF address_id \in DOMAIN addresses
               THEN Response(200, addresses[address_id])
               ELSE HTTPException(404, "Address not found")
    /\ UNCHANGED <<addresses, persons, ages, jobs>>

\* update_address merging the request body as sent, an id included.
update_address_raw(address_id, body) ==
    /\ req' = Request("update_address", address_id, body)
    /\ IF address_id \notin DOMAIN addresses
       THEN /\ resp' = HTTPException(404, "Address not found")
            /\ UNCHANGED addresses
       ELSE LET stored == DictUpdate(addresses[address_id], body)
            IN  \E valid \in AddressReadOutcomes(stored) :
                  IF valid
                  THEN /\ addresses' = [addresses EXCEPT ![address_id] = stored]
                       /\ resp' = Response(200, stored)
                  ELSE /\ resp' = HTTPException(500, "Internal Server Error")
                       /\ UNCHANGED addresses
    /\ UNCHANGED <<persons, ages, jobs>>

update_address(address_id, body) ==
    /\ req' = Request("update_address", address_id, body)
    /\ IF address_id \notin DOMAIN addresses
       THEN /\ resp' = HTTPException(404, "Address not found")
            /\ UNCHANGED addresses
       ELSE LET update == AddressUpdate(body)
                stored == DictUpdate(addresses[address_id], update)
            IN  \E valid \in AddressReadOutcomes(stored) :
                  IF valid
                  THEN /\ addresses' = [addresses EXCEPT ![address_id] = stored]
                       /\ resp' = Response(200, stored)
                  ELSE /\ resp' = HTTPException(500, "Internal Server Error")
                       /\ UNCHANGED addresses
    /\ UNCHANGED <<persons, ages, jobs>>

-----------------------------------------------------------------------------
(* Persons *)

\* The identifiers uuid4() can produce in this model.
PersonIds == {"p1", "p2"}

PersonFields ==
    {"uni", "first_name", "last_name", "email", "phone", "birth_date", "addresses"}

PersonScalarFilterOrder ==
    <<"uni", "first_name", "last_name", "email", "phone">>

\* Calendar dates (datetime.date objects).
Dates == {"date(1815, 12, 10)", "date(1912, 6, 23)"}

\* str(v) of a birth date: the zero-padded ISO form of a date, "None" of None.
DateStr(d) ==
    CASE d = "date(1815, 12, 10)" -> "1815-12-10"
      [] d = "date(1912, 6, 23)" -> "1912-06-23"
      [] OTHER -> "None"

\* PersonCreate(body): the create schema has no id; one sent by the client is dropped.
PersonCreate(body) == Restrict(body, PersonFields)

\* PersonUpdate(body): the update schema has the person fields and no id.
PersonUpdate(body) == Restrict(body, DOMAIN body \cap PersonFields)

\* uuid4(): a random identifier, taken to differ from every identifier already
\* stored and from any identifier the request carries.
Uuid4(body) ==
    PersonIds \ (DOMAIN persons \cup (IF "id" \in DOMAIN body THEN {body.id} ELSE {}))

\* PersonRead(**d) on a mapping without id: id = uuid4().
PersonRead(d, new_id) ==
    [f \in DOMAIN d \cup {"id"} |-> IF f = "id" THEN new_id ELSE d[f]]

\* PersonRead(**d) on a stored, merged mapping: whether a null passes the
\* schema depends on the field's declaration, which either accepts or rejects it.
PersonReadOutcomes(d) ==
    IF \E f \in PersonFields \ {"addresses"} : d[f] = NULL THEN {TRUE, FALSE} ELSE {TRUE}

\* all() in place of any().
AllAddresses(p, f, v) == \A i \in 1..Len(p.addresses) : p.addresses[i][f] = v

\* any(addr.<f> == v for addr in p.addresses)
AnyAddress(p, f, v) == \E i \in 1..Len(p.addresses) : p.addresses[i][f] = v

\* [p for p in results if any(addr.<f> == q[f] for addr in p.addresses)]
FilterByAddress(results, q, f) ==
    IF f \in DOMAIN q THEN {p \in results : AnyAddress(p, f, q[f])} ELSE results

\* [p for p in results if str(p.birth_date) == birth_date]
FilterByBirthDate(results, q) ==
    IF "birth_date" \in DOMAIN q
    THEN {p \in results : DateStr(p.birth_date) = q.birth_date}
    ELSE results

list_persons_result(q) ==
    LET scalars == ApplyFilters(Values(persons), q, PersonScalarFilterOrder, 1)
        born == FilterByBirthDate(scalars, q)
        incity == FilterByAddress(born, q, "city")
    IN  FilterByAddress(incity, q, "country")

\* create_person keyed by the id the client sent, when it sent one.
create_person_client_id(body) ==
    \E new_id \in (IF "id" \in DOMAIN body THEN {body.id} ELSE Uuid4(body)) :
        LET person_read == PersonRead(PersonCreate(body), new_id)
        IN  /\ req' = Request("create_person", "-", body)
            /\ persons' = DictSet(persons, person_read.id, person_read)
            /\ resp' = Response(201, person_read)
            /\ UNCHANGED <<addresses, ages, jobs>>

\* create_person with an identifier that may be in use.
create_person_reused_id(body) ==
    \E new_id \in PersonIds :
        LET person_read == PersonRead(PersonCreate(body), new_id)
        IN  /\ req' = Request("create_person", "-", body)
            /\ persons' = DictSet(persons, person_read.id, person_read)
            /\ resp' = Response(201, person_read)
            /\ UNCHANGED <<addresses, ages, jobs>>

create_person(body) ==
    \E new_id \in Uuid4(body) :
        LET person == PersonCreate(body)
            person_read == PersonRead(person, new_id)
        IN  /\ req' = Request("create_person", "-", body)
            /\ persons' = DictSet(persons, person_read.id, person_read)
            /\ resp' = Response(201, person_read)
            /\ UNCHANGED <<addresses, ages, jobs>>

list_persons(q) ==
    /\ req' = Request("list_persons", "-", q)
    /\ resp' = Response(200, list_persons_result(q))
    /\ UNCHANGED <<addresses, persons, ages, jobs>>

get_person(person_id) ==
    /\ req' = Request("get_person", person_id, Empty)
    /\ resp' = IF person_id \in DOMAIN persons
               THEN Response(200, persons[person_id])
               ELSE HTTPException(404, "Person not found")
    /\ UNCHANGED <<addresses, persons, ages, jobs>>

\* update_person creating the record when the id is not stored.
update_person_upsert(person_id, body) ==
    /\ req' = Request("update_person", person_id, body)
    /\ LET update == PersonUpdate(body)
           old == IF person_id \in DOMAIN persons
                  THEN persons[person_id]
                  ELSE [f \in PersonFields |->
                          IF f = "id" THEN person_id
                          ELSE IF f = "addresses" THEN <<>> ELSE "A"]
           stored == DictUpdate(old, update)
       IN  \E valid \in PersonReadOutcomes(stored) :
             IF valid
             THEN /\ persons' = DictSet(persons, person_id, stored)
                  /\ resp' = Response(200, stored)
             ELSE /\ resp' = HTTPException(500, "Internal Server Error")
                  /\ UNCHANGED persons
    /\ UNCHANGED <<addresses, ages, jobs>>

\* update_person taking the record out of the table while it merges, and
\* putting it back only when the merged record validates.
update_person_pop(person_id, body) ==
    /\ req' = Request("update_person", person_id, body)
    /\ IF person_id \notin DOMAIN persons
       THEN /\ resp' = HTTPException(404, "Person not found")
            /\ UNCHANGED persons
       ELSE LET update == PersonUpdate(body)
                stored == DictUpdate(persons[person_id], update)
            IN  \E valid \in PersonReadOutcomes(stored) :
                  IF valid
                  THEN /\ persons' = [persons EXCEPT ![person_id] = stored]
                       /\ resp' = Response(200, stored)
                  ELSE /\ resp' = HTTPException(500, "Internal Server Error")
                       /\ persons' = Restrict(persons, DOMAIN persons \ {person_id})
    /\ UNCHANGED <<addresses, ages, jobs>>

update_person(person_id, body) ==
    /\ req' = Request("update_person", person_id, body)
    /\ IF person_id \notin DOMAIN persons
       THEN /\ resp' = HTTPException(404, "Person not found")
            /\ UNCHANGED persons
       ELSE LET update == PersonUpdate(body)
                stored == DictUpdate(persons[person_id], update)
            IN  \E valid \in PersonReadOutcomes(stored) :
                  IF valid
                  THEN /\ persons' = [persons EXCEPT ![person_id] = stored]
                       /\ resp' = Response(200, stored)
                  ELSE /\ resp' = HTTPException(500, "Internal Server Error")
                       /\ UNCHANGED persons
    /\ UNCHANGED <<addresses, ages, jobs>>

-----------------------------------------------------------------------------
(* Ages *)

\* create_age with the existence check of create_address.
create_age_strict(payload) ==
    /\ req' = Request("create_age", "-", payload)
    /\ IF payload.person_name \in DOMAIN ages
       THEN /\ resp' = HTTPException(400, "Age record already exists")
            /\ UNCHANGED ages
       ELSE /\ ages' = DictSet(ages, payload.person_name, payload)
            /\ resp' = Response(201, payload)
    /\ UNCHANGED <<addresses, persons, jobs>>

create_age(payload) ==
    /\ req' = Request("create_age", "-", payload)
    /\ ages' = DictSet(ages, payload.person_name, payload)
    /\ resp' = Response(201, payload)
    /\ UNCHANGED <<addresses, persons, jobs>>

list_ages ==
    /\ req' = Request("list_ages", "-", Empty)
    /\ resp' = Response(200, Values(ages))
    /\ UNCHANGED <<addresses, persons, ages, jobs>>

get_age(person_name) ==
    /\ req' = Request("get_age", person_name, Empty)
    /\ resp' = IF person_name \in DOMAIN ages
               THEN Response(200, ages[person_name])
               ELSE HTTPException(404, "Age record not found")
    /\ UNCHANGED <<addresses, persons, ages, jobs>>

\* replace_age without the comparison of path and payload.
replace_age_unchecked(person_name, age) ==
    /\ req' = Request("replace_age", person_name, age)
    /\ ages' = DictSet(ages, person_name, age)
    /\ resp' = Response(200, age)
    /\ UNCHANGED <<addresses, persons, jobs>>

replace_age(person_name, age) ==
    /\ req' = Request("replace_age", person_name, age)
    /\ IF person_name # age.person_name
       THEN /\ resp' = HTTPException(400, "Person name in URL must match payload")
            /\ UNCHANGED ages
       ELSE /\ ages' = DictSet(ages, person_name, age)
            /\ resp' = Response(200, age)
    /\ UNCHANGED <<addresses, persons, jobs>>

delete_age(person_name) ==
    /\ req' = Request("delete_age", person_name, Empty)
    /\ IF person_name \notin DOMAIN ages
       THEN /\ resp' = HTTPException(404, "Age record not found")
            /\ UNCHANGED ages
       ELSE /\ ages' = DictPop(ages, person_name)
            /\ resp' = Response(204, Empty)
    /\ UNCHANGED <<addresses, persons, jobs>>

-----------------------------------------------------------------------------
(* Jobs *)

\* UUID values (the 128-bit number, here a single hexadecimal digit).
JobUuids == {10, 11}

\* str(uuid): the canonical, lower-case text of a UUID.
UuidStr(u) == CASE u = 10 -> "a" [] u = 11 -> "b" [] OTHER -> NULL

\* Texts a client may put in the path of a job request; upper-case hexadecimal
\* digits denote the same UUID but are another string.
JobPaths == {"a", "A", "b", "B"}

\* create_job keyed by the upper-case text of the id.
create_job_upper(payload) ==
    /\ req' = Request("create_job", "-", payload)
    /\ jobs' = DictSet(jobs, IF payload.id = 10 THEN "A" ELSE "B", payload)
    /\ resp' = Response(201, payload)
    /\ UNCHANGED <<addresses, persons, ages>>

create_job(payload) ==
    /\ req' = Request("create_job", "-", payload)
    /\ jobs' = DictSet(jobs, UuidStr(payload.id), payload)
    /\ resp' = Response(201, payload)
    /\ UNCHANGED <<addresses, persons, ages>>

list_jobs ==
    /\ req' = Request("list_jobs", "-", Empty)
    /\ resp' = Response(200, Values(jobs))
    /\ UNCHANGED <<addresses, persons, ages, jobs>>

get_job(job_id) ==
    /\ req' = Request("get_job", job_id, Empty)
    /\ resp' = IF job_id \in DOMAIN jobs
               THEN Response(200, jobs[job_id])
               ELSE HTTPException(404, "Job not found")
    /\ UNCHANGED <<addresses, persons, ages, jobs>>

\* replace_job comparing the path with the payload id as UUIDs (any letter
\* case) and storing under the text of the path.
replace_job_parsed(job_id, job) ==
    /\ req' = Request("replace_job", job_id, job)
    /\ IF job_id \notin (IF job.id = 10 THEN {"a", "A"} ELSE {"b", "B"})
       THEN /\ resp' = HTTPException(400, "Job ID in URL must match payload")
            /\ UNCHANGED jobs
       ELSE /\ jobs' = DictSet(jobs, job_id, job)
            /\ resp' = Response(200, job)
    /\ UNCHANGED <<addresses, persons, ages>>

replace_job(job_id, job) ==
    /\ req' = Request("replace_job", job_id, job)
    /\ IF UuidStr(job.id) # job_id
       THEN /\ resp' = HTTPException(400, "Job ID in URL must match payload")
            /\ UNCHANGED jobs
       ELSE /\ jobs' = DictSet(jobs, job_id, job)
            /\ resp' = Response(200, job)
    /\ UNCHANGED <<addresses, persons, ages>>

\* delete_job emptying the table.
delete_job_clears(job_id) ==
    /\ req' = Request("delete_job", job_id, Empty)
    /\ IF job_id \notin DOMAIN jobs
       THEN /\ resp' = HTTPException(404, "Job not found")
            /\ UNCHANGED jobs
       ELSE /\ jobs' = Empty
            /\ resp' = Response(204, Empty)
    /\ UNCHANGED <<addresses, persons, ages>>

delete_job(job_id) ==
    /\ req' = Request("delete_job", job_id, Empty)
    /\ IF job_id \notin DOMAIN jobs
       THEN /\ resp' = HTTPException(404, "Job not found")
            /\ UNCHANGED jobs
       ELSE /\ jobs' = DictPop(jobs, job_id)
            /\ resp' = Response(204, Empty)
    /\ UNCHANGED <<addresses, persons, ages>>

-----------------------------------------------------------------------------
(* Handlers line by line: the thread pool runs the handlers, which are plain
   functions, on worker threads that share the tables and take no lock *)

\* Two requests in flight.
Workers == {"w1", "w2"}

\* A worker with no request. stored is the handler's local of that name;
\* read and raced are history fields: the record the handler read, and
\* whether this request and the other worker's both passed their check or
\* read before either wrote ("first": this one wrote first, "second": the
\* other did).
NoThread ==
    [pc |-> "idle", op |-> "none", key |-> "-", body |-> Empty, stored |-> Empty,
     read |-> Empty, raced |-> "no", resp |-> NoResp]

OtherWorker(w) == CHOOSE v \in Workers : v # w

Quiet == UNCHANGED <<persons, ages, jobs, req, resp, before, created>>

\* A worker thread picks up POST /addresses.
create_address_begin(w, address) ==
    /\ threads[w].pc = "idle"
    /\ threads' = [threads EXCEPT ![w] =
          [NoThread EXCEPT !.pc = "check", !.op = "create_address",
                           !.key = address.id, !.body = address]]
    /\ UNCHANGED addresses
    /\ Quiet

\* if address.id in addresses: raise HTTPException(400)
create_address_check(w) ==
    /\ threads[w].op = "create_address"
    /\ threads[w].pc = "check"
    /\ threads' = [threads EXCEPT ![w] =
          IF threads[w].key \in DOMAIN addresses
          THEN [@ EXCEPT !.pc = "done",
                         !.resp = HTTPException(400, "Address with this ID already exists")]
          ELSE [@ EXCEPT !.pc = "store"]]
    /\ UNCHANGED addresses
    /\ Quiet

\* The store of create_address refusing a key that has appeared since the check.
create_address_store_checked(w) ==
    /\ threads[w].op = "create_address"
    /\ threads[w].pc = "store"
    /\ LET v == OtherWorker(w)
           together == /\ threads[v].op = "create_address"
                       /\ threads[v].key = threads[w].key
                       /\ threads[v].pc = "store"
       IN  IF threads[w].key \in DOMAIN addresses
           THEN /\ threads' = [threads EXCEPT ![w] =
                      [@ EXCEPT !.pc = "done",
                                !.resp = HTTPException(400, "Address with this ID already exists")]]
                /\ UNCHANGED addresses
           ELSE /\ addresses' = DictSet(addresses, threads[w].key, threads[w].body)
                /\ threads' = [x \in Workers |->
                      IF x = w
                      THEN [threads[x] EXCEPT !.pc = "return",
                               !.raced = IF together THEN "first" ELSE @]
                      ELSE IF together THEN [threads[x] EXCEPT !.raced = "second"]
                      ELSE threads[x]]
    /\ Quiet

\* addresses[address.id] = AddressRead(**address.model_dump())
create_address_store(w) ==
    /\ threads[w].op = "create_address"
    /\ threads[w].pc = "store"
    /\ LET v == OtherWorker(w)
           together == /\ threads[v].op = "create_address"
                       /\ threads[v].key = threads[w].key
                       /\ threads[v].pc = "store"
       IN  /\ addresses' = DictSet(addresses, threads[w].key, threads[w].body)
           /\ threads' = [x \in Workers |->
                 IF x = w
                 THEN [threads[x] EXCEPT !.pc = "return",
                          !.raced = IF together THEN "first" ELSE @]
                 ELSE IF together THEN [threads[x] EXCEPT !.raced = "second"]
                 ELSE threads[x]]
    /\ Quiet

\* return addresses[address.id]
create_address_return(w) ==
    /\ threads[w].op = "create_address"
    /\ threads[w].pc = "return"
    /\ threads' = [threads EXCEPT ![w] =
          [@ EXCEPT !.pc = "done", !.resp = Response(201, addresses[threads[w].key])]]
    /\ UNCHANGED addresses
    /\ Quiet

\* A worker thread picks up PATCH /addresses/{address_id}.
update_address_begin(w, address_id, body) ==
    /\ threads[w].pc = "idle"
    /\ threads' = [threads EXCEPT ![w] =
          [NoThread EXCEPT !.pc = "check", !.op = "update_address",
                           !.key = address_id, !.body = body]]
    /\ UNCHANGED addresses
    /\ Quiet

\* if address_id not in addresses: raise HTTPException(404)
update_address_check(w) ==
    /\ threads[w].op = "update_address"
    /\ threads[w].pc = "check"
    /\ threads' = [threads EXCEPT ![w] =
          IF threads[w].key \notin DOMAIN addresses
          THEN [@ EXCEPT !.pc = "done", !.resp = HTTPException(404, "Address not found")]
          ELSE [@ EXCEPT !.pc = "read"]]
    /\ UNCHANGED addresses
    /\ Quiet

\* stored = addresses[address_id].model_dump()
update_address_read(w) ==
    /\ threads[w].op = "update_address"
    /\ threads[w].pc = "read"
    /\ threads' = [threads EXCEPT ![w] =
          [@ EXCEPT !.pc = "merge", !.stored = addresses[threads[w].key],
                    !.read = addresses[threads[w].key]]]
    /\ UNCHANGED addresses
    /\ Quiet

\* stored.update(update.model_dump(exclude_unset=True))
update_address_merge(w) ==
    /\ threads[w].op = "update_address"
    /\ threads[w].pc = "merge"
    /\ threads' = [threads EXCEPT ![w] =
          [@ EXCEPT !.pc = "write",
                    !.stored = DictUpdate(@, AddressUpdate(threads[w].body))]]
    /\ UNCHANGED addresses
    /\ Quiet

\* The write of update_address merging the update into the record the table
\* holds at the write.
update_address_write_fresh(w) ==
    /\ threads[w].op = "update_address"
    /\ threads[w].pc = "write"
    /\ LET v == OtherWorker(w)
           together == /\ threads[v].op = "update_address"
                       /\ threads[v].key = threads[w].key
                       /\ threads[v].pc \in {"merge", "write"}
           fresh == DictUpdate(addresses[threads[w].key], AddressUpdate(threads[w].body))
       IN  \E valid \in AddressReadOutcomes(fresh) :
             IF valid
             THEN /\ addresses' = [addresses EXCEPT ![threads[w].key] = fresh]
                  /\ threads' = [x \in Workers |->
                        IF x = w
                        THEN [threads[x] EXCEPT !.pc = "return",
                                 !.raced = IF together THEN "first" ELSE @]
                        ELSE IF together THEN [threads[x] EXCEPT !.raced = "second"]
                        ELSE threads[x]]
             ELSE /\ threads' = [threads EXCEPT ![w] =
                        [@ EXCEPT !.pc = "done",
                                  !.resp = HTTPException(500, "Internal Server Error")]]
                  /\ UNCHANGED addresses
    /\ Quiet

\* addresses[address_id] = AddressRead(**stored)
update_address_write(w) ==
    /\ threads[w].op = "update_address"
    /\ threads[w].pc = "write"
    /\ LET v == OtherWorker(w)
           together == /\ threads[v].op = "update_address"
                       /\ threads[v].key = threads[w].key
                       /\ threads[v].pc \in {"merge", "write"}
       IN  \E valid \in AddressReadOutcomes(threads[w].stored) :
             IF valid
             THEN /\ addresses' = [addresses EXCEPT ![threads[w].key] = threads[w].stored]
                  /\ threads' = [x \in Workers |->
                        IF x = w
                        THEN [threads[x] EXCEPT !.pc = "return",
                                 !.raced = IF together THEN "first" ELSE @]
                        ELSE IF together THEN [threads[x] EXCEPT !.raced = "second"]
                        ELSE threads[x]]
             ELSE /\ threads' = [threads EXCEPT ![w] =
                        [@ EXCEPT !.pc = "done",
                                  !.resp = HTTPException(500, "Internal Server Error")]]
                  /\ UNCHANGED addresses
    /\ Quiet

\* return addresses[address_id]
update_address_return(w) ==
    /\ threads[w].op = "update_address"
    /\ threads[w].pc = "return"
    /\ threads' = [threads EXCEPT ![w] =
          [@ EXCEPT !.pc = "done", !.resp = Response(200, addresses[threads[w].key])]]
    /\ UNCHANGED addresses
    /\ Quiet

\* The response is sent; the worker is free again.
thread_done(w) ==
    /\ threads[w].pc = "done"
    /\ threads' = [threads EXCEPT ![w] = NoThread]
    /\ UNCHANGED addresses
    /\ Quiet

-----------------------------------------------------------------------------
(* Dispatch *)

\* No request is being served.
Idle == req = NoReq

\* The response is delivered; the service waits for the next request.
Respond ==
    /\ req # NoReq
    /\ req' = NoReq
    /\ resp' = NoResp
    /\ before' = NoBefore
    /\ UNCHANGED <<addresses, persons, ages, jobs, created, threads>>

Init ==
    /\ addresses = Empty
    /\ persons = Empty
    /\ ages = Empty
    /\ jobs = Empty
    /\ req = NoReq
    /\ resp = NoResp
    /\ before = NoBefore
    /\ created = NoCreate
    /\ threads = [w \in Workers |-> NoThread]

-----------------------------------------------------------------------------
(* The client's view of a request: which table and key it addressed *)

CreateOps == {"create_address", "create_person", "create_age", "create_job"}

GetOps == {"get_address", "get_person", "get_age", "get_job"}

\* Requests that only read.
ReadOps ==
    GetOps \cup {"list_addresses", "list_persons", "list_ages", "list_jobs",
                 "get_health_no_path", "get_health_with_path", "root"}

\* Requests that write the key named in their path.
KeyedWriteOps ==
    {"update_address", "update_person", "replace_age", "replace_job",
     "delete_age", "delete_job"}

TableOf(op) ==
    CASE op \in {"create_address", "list_addresses", "get_address", "update_address"}
            -> "addresses"
      [] op \in {"create_person", "list_persons", "get_person", "update_person"}
            -> "persons"
      [] op \in {"create_age", "list_ages", "get_age", "replace_age", "delete_age"}
            -> "ages"
      [] op \in {"create_job", "list_jobs", "get_job", "replace_job", "delete_job"}
            -> "jobs"
      [] OTHER -> "none"

\* The key under which a client finds a record a Create returned: its id
\* (in the text form JSON gives a UUID), or its person_name.
KeyOfBody(table, body) ==
    CASE table = "ages" -> body.person_name
      [] table = "jobs" -> UuidStr(body.id)
      [] OTHER -> body.id

Succeeded(r) == r.status \in {200, 201, 204}

\* The history variable follows the requests served: a successful Create opens
\* the round-trip window of its key, a later successful write of that key closes it.
Track ==
    created' =
        IF req'.op \in CreateOps /\ Succeeded(resp')
        THEN [table |-> TableOf(req'.op),
              key |-> KeyOfBody(TableOf(req'.op), resp'.body),
              body |-> resp'.body]
        ELSE IF /\ req'.op \in KeyedWriteOps
                /\ Succeeded(resp')
                /\ TableOf(req'.op) = created.table
                /\ req'.key = created.key
             THEN NoCreate
             ELSE created

\* The stores as the request found them.
Snapshot == before' = Tables

\* Specifications that check no round trip do not follow the Creates.
Watch == Snapshot /\ UNCHANGED <<created, threads>>

WatchCreates == Snapshot /\ Track /\ UNCHANGED threads

-----------------------------------------------------------------------------
(* Request payloads *)

\* Every mapping of a subset of the fields S to values of V:
\* model_dump(exclude_unset=True) of an update, or the given query filters.
Partial(S, V) == UNION {[T -> V] : T \in SUBSET S}

\* Every pair of a mapping of U and a mapping of W (on other keys), as one mapping.
Both(U, W) ==
    {[f \in DOMAIN u \cup DOMAIN w |-> IF f \in DOMAIN u THEN u[f] ELSE w[f]] :
        u \in U, w \in W}

\* Every AddressCreate body: a client-chosen id and the five string fields.
AddressCreates ==
    [id : AddressIds, street : Str, city : Str, state : Str,
     postal_code : Str, country : Str]

AddressQueries == Partial(AddressFields, Str)

\* Address bodies that differ in street and city / in street only.
AddressCreates2 ==
    {a \in AddressCreates : a.state = "A" /\ a.postal_code = "A" /\ a.country = "A"}

AddressCreates1 == {a \in AddressCreates2 : a.city = "A"}

\* Updates that carry any subset of street and city, a null included.
AddressUpdates2 == Partial({"street", "city"}, Str \cup {NULL})

AddressUpdates1 == Partial({"street"}, Str)

AddressQueries1 == Partial({"street"}, Str)

\* The longest embedded address list of a request.
MaxAddrs == 2

\* Addresses embedded in a person, differing in city and country.
EmbeddedAddresses ==
    {[id |-> "a1", street |-> "A", city |-> c[1], state |-> "A",
      postal_code |-> "A", country |-> c[2]] :
        c \in {<<"A", "A">>, <<"A", "B">>, <<"B", "A">>}}

AddressLists == UNION {[1..n -> EmbeddedAddresses] : n \in 0..MaxAddrs}

PersonBody(first_name, birth_date, addrs) ==
    [uni |-> "A", first_name |-> first_name, last_name |-> "A", email |-> "A",
     phone |-> "A", birth_date |-> birth_date, addresses |-> addrs]

\* A create body on which the client also sent an id.
WithId(body, id) ==
    [f \in DOMAIN body \cup {"id"} |-> IF f = "id" THEN id ELSE body[f]]

\* Create bodies that differ in first name and embedded addresses.
PersonBodies ==
    {PersonBody(n, "date(1815, 12, 10)", l) : n \in Str, l \in AddressLists}

PersonCreates == PersonBodies \cup {WithId(b, i) : b \in PersonBodies, i \in PersonIds}

\* Texts of the birth_date filter: an ISO date, and the same date unpadded.
BirthDateTexts == {"1815-12-10", "1815-12-1"}

PersonQueries ==
    Both(Partial({"first_name", "city", "country"}, Str),
         Partial({"birth_date"}, BirthDateTexts))

\* Person bodies that differ in first name and in having an address.
PersonBodies2 ==
    {PersonBody(n, "date(1815, 12, 10)", l) :
        n \in Str, l \in {<<>>, <<CHOOSE e \in EmbeddedAddresses : e.city = "B">>}}

PersonBodies1 == {b \in PersonBodies2 : b.addresses = <<>>}

PersonUpdates2 ==
    Both(Partial({"first_name"}, Str \cup {NULL}),
         Partial({"addresses"}, {b.addresses : b \in PersonBodies2}))

PersonUpdates1 == Partial({"first_name"}, Str)

PersonQueries1 == Partial({"first_name"}, Str)

\* PATCH bodies on which the client also sent an id, and the same without.
AddressPatchBodies ==
    AddressUpdates1 \cup {WithId(u, i) : u \in AddressUpdates1, i \in AddressIds}

PersonPatchBodies ==
    PersonUpdates1 \cup {WithId(u, i) : u \in PersonUpdates1, i \in PersonIds}

AgeNames == {"ada", "bob"}

\* Every Age body; current_age is optional.
AgePayloads ==
    [person_name : AgeNames, birth_date : Dates, current_age : {NULL, "36"}]

AgePayloads1 == {a \in AgePayloads : a.birth_date = "date(1815, 12, 10)"}

\* Job bodies that differ in id, title and is_current; end_date is optional.
JobPayloads ==
    [id : JobUuids, title : Str, company : {"A"}, start_date : {"date(1912, 6, 23)"},
     end_date : {NULL}, is_current : BOOLEAN]

JobPayloads1 == {j \in JobPayloads : j.title = "A"}

\* Bodies of the requests that run on two workers: creates that differ in id
\* and street, updates that set street, city, both or neither.
RaceCreates == AddressCreates1

RaceUpdates == Partial({"street", "city"}, {"B"})

-----------------------------------------------------------------------------
(* The address service: every create body, every combination of filters *)

NextAddress ==
    \/ Idle /\ (\E a \in AddressCreates : create_address(a)) /\ Watch
    \/ Idle /\ (\E q \in AddressQueries : list_addresses(q)) /\ Watch
    \/ Idle /\ (\E id \in AddressIds : get_address(id)) /\ Watch
    \/ Respond

SpecAddress == Init /\ [][NextAddress]_vars

(* The person service: create bodies with and without a client id, every
   combination of the filters on first name, birth date, city and country *)

NextPerson ==
    \/ Idle /\ (\E b \in PersonCreates : create_person(b)) /\ Watch
    \/ Idle /\ (\E q \in PersonQueries : list_persons(q)) /\ Watch
    \/ Idle /\ (\E id \in PersonIds : get_person(id)) /\ Watch
    \/ Respond

SpecPerson == Init /\ [][NextPerson]_vars

(* Partial updates of addresses and persons *)

NextPatch ==
    \/ Idle /\ (\E a \in AddressCreates2 : create_address(a)) /\ Watch
    \/ Idle /\ (\E id \in AddressIds : get_address(id)) /\ Watch
    \/ Idle /\ (\E id \in AddressIds, u \in AddressUpdates2 : update_address(id, u))
            /\ Watch
    \/ Idle /\ (\E b \in PersonBodies2 : create_person(b)) /\ Watch
    \/ Idle /\ (\E id \in PersonIds : get_person(id)) /\ Watch
    \/ Idle /\ (\E id \in PersonIds, u \in PersonUpdates2 : update_person(id, u))
            /\ Watch
    \/ Respond

SpecPatch == Init /\ [][NextPatch]_vars

(* Creates and partial updates whose body may name an id *)

NextIdentity ==
    \/ Idle /\ (\E a \in AddressCreates1 : create_address(a)) /\ Watch
    \/ Idle /\ (\E id \in AddressIds : get_address(id)) /\ Watch
    \/ Idle /\ (\E id \in AddressIds, b \in AddressPatchBodies : update_address(id, b))
            /\ Watch
    \/ Idle /\ (\E b \in PersonCreates : create_person(b)) /\ Watch
    \/ Idle /\ (\E id \in PersonIds : get_person(id)) /\ Watch
    \/ Idle /\ (\E id \in PersonIds, b \in PersonPatchBodies : update_person(id, b))
            /\ Watch
    \/ Respond

SpecIdentity == Init /\ [][NextIdentity]_vars

(* The age and job services *)

NextRace ==
    \/ \E w \in Workers, a \in RaceCreates : create_address_begin(w, a)
    \/ \E w \in Workers : create_address_check(w)
    \/ \E w \in Workers : create_address_store(w)
    \/ \E w \in Workers : create_address_return(w)
    \/ \E w \in Workers, id \in AddressIds, u \in RaceUpdates :
          update_address_begin(w, id, u)
    \/ \E w \in Workers : update_address_check(w)
    \/ \E w \in Workers : update_address_read(w)
    \/ \E w \in Workers : update_address_merge(w)
    \/ \E w \in Workers : update_address_write(w)
    \/ \E w \in Workers : update_address_return(w)
    \/ \E w \in Workers : thread_done(w)

SpecRace == Init /\ [][NextRace]_vars

NextAgeJob ==
    \/ Idle /\ (\E a \in AgePayloads : create_age(a)) /\ Watch
    \/ Idle /\ list_ages /\ Watch
    \/ Idle /\ (\E n \in AgeNames : get_age(n)) /\ Watch
    \/ Idle /\ (\E n \in AgeNames, a \in AgePayloads : replace_age(n, a)) /\ Watch
    \/ Idle /\ (\E n \in AgeNames : delete_age(n)) /\ Watch
    \/ Idle /\ (\E j \in JobPayloads : create_job(j)) /\ Watch
    \/ Idle /\ list_jobs /\ Watch
    \/ Idle /\ (\E k \in JobPaths : get_job(k)) /\ Watch
    \/ Idle /\ (\E k \in JobPaths, j \in JobPayloads : replace_job(k, j)) /\ Watch
    \/ Idle /\ (\E k \in JobPaths : delete_job(k)) /\ Watch
    \/ Respond

SpecAgeJob == Init /\ [][NextAgeJob]_vars

(* The whole service, every handler, with the history of Creates *)

Next ==
    \/ Idle /\ (\E a \in AddressCreates1 : create_address(a)) /\ WatchCreates
    \/ Idle /\ (\E q \in AddressQueries1 : list_addresses(q)) /\ WatchCreates
    \/ Idle /\ (\E id \in AddressIds : get_address(id)) /\ WatchCreates
    \/ Idle /\ (\E id \in AddressIds, u \in AddressUpdates1 : update_address(id, u))
            /\ WatchCreates
    \/ Idle /\ (\E b \in PersonBodies1 : create_person(b)) /\ WatchCreates
    \/ Idle /\ (\E q \in PersonQueries1 : list_persons(q)) /\ WatchCreates
    \/ Idle /\ (\E id \in PersonIds : get_person(id)) /\ WatchCreates
    \/ Idle /\ (\E id \in PersonIds, u \in PersonUpdates1 : update_person(id, u))
            /\ WatchCreates
    \/ Idle /\ (\E a \in AgePayloads1 : create_age(a)) /\ WatchCreates
    \/ Idle /\ list_ages /\ WatchCreates
    \/ Idle /\ (\E n \in AgeNames : get_age(n)) /\ WatchCreates
    \/ Idle /\ (\E n \in AgeNames, a \in AgePayloads1 : replace_age(n, a)) /\ WatchCreates
    \/ Idle /\ (\E n \in AgeNames : delete_age(n)) /\ WatchCreates
    \/ Idle /\ (\E j \in JobPayloads1 : create_job(j)) /\ WatchCreates
    \/ Idle /\ list_jobs /\ WatchCreates
    \/ Idle /\ (\E k \in JobPaths : get_job(k)) /\ WatchCreates
    \/ Idle /\ (\E k \in JobPaths, j \in JobPayloads1 : replace_job(k, j)) /\ WatchCreates
    \/ Idle /\ (\E k \in JobPaths : delete_job(k)) /\ WatchCreates
    \/ Idle /\ (\E e \in {NULL, "A"} : get_health_no_path(e)) /\ WatchCreates
    \/ Idle /\ (\E p \in Str, e \in {NULL, "A"} : get_health_with_path(p, e))
            /\ WatchCreates
    \/ Idle /\ root /\ WatchCreates
    \/ Respond

Spec == Init /\ [][Next]_vars

-----------------------------------------------------------------------------
(* Properties *)

\* C1: a Create-Address whose id is already a key of the address table is
\* answered 400 and leaves the address table as it was.
C1_DuplicateAddressConflict ==
    (req.op = "create_address" /\ req.key \in DOMAIN before.addresses)
        => (resp.status = 400 /\ addresses = before.addresses)

\* A Create-Address was refused for an id stored with other field values,
\* beside a second stored address.
C1_Witness ==
    /\ req.op = "create_address"
    /\ req.key \in DOMAIN before.addresses
    /\ before.addresses[req.key] # req.payload
    /\ resp.status = 400
    /\ Cardinality(DOMAIN addresses) = 2

C3_DeleteThenNotFound ==
    /\ (req.op = "delete_age" /\ req.key \notin DOMAIN before.ages)
          => (resp.status = 404 /\ ages = before.ages)
    /\ (req.op = "delete_age" /\ req.key \in DOMAIN before.ages) =>
          /\ resp.status = 204
          /\ DOMAIN ages = DOMAIN before.ages \ {req.key}
          /\ \A k \in DOMAIN ages : ages[k] = before.ages[k]
    /\ (req.op = "get_age" /\ req.key \notin DOMAIN ages) => resp.status = 404
    /\ (~Idle /\ DOMAIN ages \ DOMAIN before.ages # {})
          => req.op \in {"create_age", "replace_age"}
    /\ (req.op = "delete_job" /\ req.key \notin DOMAIN before.jobs)
          => (resp.status = 404 /\ jobs = before.jobs)
    /\ (req.op = "delete_job" /\ req.key \in DOMAIN before.jobs) =>
          /\ resp.status = 204
          /\ DOMAIN jobs = DOMAIN before.jobs \ {req.key}
          /\ \A k \in DOMAIN jobs : jobs[k] = before.jobs[k]
    /\ (req.op = "get_job" /\ req.key \notin DOMAIN jobs) => resp.status = 404
    /\ (~Idle /\ DOMAIN jobs \ DOMAIN before.jobs # {})
          => req.op \in {"create_job", "replace_job"}

\* A stored job was deleted while another job and an age record stay stored.
C3_Witness ==
    /\ req.op = "delete_job"
    /\ req.key \in DOMAIN before.jobs
    /\ resp.status = 204
    /\ jobs # Empty
    /\ ages # Empty

\* C4: a Replace whose path key differs from the payload's key (person_name,
\* or the text of the job id) is answered 400 and leaves the table as it was.
C4_ReplaceMismatchBadRequest ==
    /\ (req.op = "replace_age" /\ req.key # req.payload.person_name)
          => (resp.status = 400 /\ ages = before.ages)
    /\ (req.op = "replace_job" /\ req.key # UuidStr(req.payload.id))
          => (resp.status = 400 /\ jobs = before.jobs)

\* A Replace of a stored age key was refused for a payload naming a key that
\* is not stored.
C4_Witness ==
    /\ req.op = "replace_age"
    /\ req.key # req.payload.person_name
    /\ req.key \in DOMAIN before.ages
    /\ req.payload.person_name \notin DOMAIN before.ages
    /\ resp.status = 400

\* C5: the id of the Person a Create-Person returns and stores was not a key
\* of the person table and is not the id the client sent.
C5_PersonIdFresh ==
    req.op = "create_person" =>
        /\ resp.status = 201
        /\ resp.body.id \notin DOMAIN before.persons
        /\ "id" \in DOMAIN req.payload => resp.body.id # req.payload.id
        /\ resp.body.id \in DOMAIN persons
        /\ persons[resp.body.id] = resp.body

\* A Create-Person carried an id that no stored person has.
C5_Witness ==
    /\ req.op = "create_person"
    /\ "id" \in DOMAIN req.payload
    /\ req.payload.id \notin DOMAIN before.persons
    /\ resp.status = 201

\* C6: a Create-Person is answered 201, keeps every stored person as it was
\* and adds exactly one key.
C6_CreatePersonAddsOne ==
    req.op = "create_person" =>
        /\ resp.status = 201
        /\ \A k \in DOMAIN before.persons :
              k \in DOMAIN persons /\ persons[k] = before.persons[k]
        /\ Cardinality(DOMAIN persons) = Cardinality(DOMAIN before.persons) + 1

\* A person was created beside a stored one that an update had changed.
C6_Witness ==
    /\ req.op = "create_person"
    /\ resp.status = 201
    /\ \E k \in DOMAIN before.persons : before.persons[k].first_name = NULL

\* C7: List-Addresses returns exactly the stored addresses that equal the
\* filter value in every filter given; all of them when none is given.
C7_ListAddressesConjunctive ==
    req.op = "list_addresses" =>
        /\ resp.status = 200
        /\ resp.body =
              {a \in Values(addresses) :
                  \A f \in DOMAIN req.payload : a[f] = req.payload[f]}

\* Two filters were given; of two stored addresses one matches both and is
\* returned, the other matches one of them and is not.
C7_Witness ==
    /\ req.op = "list_addresses"
    /\ Cardinality(DOMAIN req.payload) = 2
    /\ Cardinality(DOMAIN addresses) = 2
    /\ Cardinality(resp.body) = 1
    /\ \E a \in Values(addresses) \ resp.body :
          \E f \in DOMAIN req.payload : a[f] = req.payload[f]

\* C8: List-Persons returns exactly the stored persons that equal every scalar
\* filter given, whose birth date has the given text, and that have some
\* embedded address of the given city and some embedded address of the given
\* country.
C8_ListPersonsAnyAddress ==
    req.op = "list_persons" =>
        /\ resp.status = 200
        /\ resp.body =
              {p \in Values(persons) :
                  /\ \A f \in DOMAIN req.payload \cap
                              {"uni", "first_name", "last_name", "email", "phone"} :
                        p[f] = req.payload[f]
                  /\ "birth_date" \in DOMAIN req.payload
                        => DateStr(p.birth_date) = req.payload.birth_date
                  /\ "city" \in DOMAIN req.payload
                        => \E i \in 1..Len(p.addresses) :
                              p.addresses[i].city = req.payload.city
                  /\ "country" \in DOMAIN req.payload
                        => \E i \in 1..Len(p.addresses) :
                              p.addresses[i].country = req.payload.country}

\* City, country and first name were given; a returned person has no single
\* address of both that city and that country, and a stored person is left out.
C8_Witness ==
    /\ req.op = "list_persons"
    /\ {"city", "country", "first_name"} \subseteq DOMAIN req.payload
    /\ \E p \in resp.body :
          \A i \in 1..Len(p.addresses) :
              ~(/\ p.addresses[i].city = req.payload.city
                /\ p.addresses[i].country = req.payload.country)
    /\ Values(persons) \ resp.body # {}

\* C9: a Get with the key a Create returned, no request having written that
\* key since, is answered 200 with the record the Create returned.
C9_RoundTrip ==
    (req.op \in GetOps /\ created.table = TableOf(req.op) /\ req.key = created.key)
        => (resp.status = 200 /\ resp.body = created.body)

\* A job was read back by the text of the id its Create returned, while all
\* four tables hold records.
C9_Witness ==
    /\ req.op = "get_job"
    /\ created.table = "jobs"
    /\ req.key = created.key
    /\ resp.status = 200
    /\ Cardinality(DOMAIN jobs) = 2
    /\ addresses # Empty /\ persons # Empty /\ ages # Empty

\* C10: a Create on ages or jobs, and a Replace whose path key is the
\* payload's key, always succeed; afterwards the key holds the payload and
\* every other key is as it was.
C10_AgeJobUpsert ==
    /\ (req.op = "create_age"
            \/ (req.op = "replace_age" /\ req.key = req.payload.person_name)) =>
          /\ resp.status = (IF req.op = "create_age" THEN 201 ELSE 200)
          /\ resp.body = req.payload
          /\ DOMAIN ages = DOMAIN before.ages \cup {req.payload.person_name}
          /\ ages[req.payload.person_name] = req.payload
          /\ \A k \in DOMAIN before.ages \ {req.payload.person_name} :
                ages[k] = before.ages[k]
    /\ (req.op = "create_job"
            \/ (req.op = "replace_job" /\ req.key = UuidStr(req.payload.id))) =>
          /\ resp.status = (IF req.op = "create_job" THEN 201 ELSE 200)
          /\ resp.body = req.payload
          /\ DOMAIN jobs = DOMAIN before.jobs \cup {UuidStr(req.payload.id)}
          /\ jobs[UuidStr(req.payload.id)] = req.payload
          /\ \A k \in DOMAIN before.jobs \ {UuidStr(req.payload.id)} :
                jobs[k] = before.jobs[k]

\* A Create-Age overwrote a stored record of other field values, beside a
\* second stored key.
C10_Witness ==
    /\ req.op = "create_age"
    /\ req.payload.person_name \in DOMAIN before.ages
    /\ before.ages[req.payload.person_name] # req.payload
    /\ ages[req.payload.person_name] = req.payload
    /\ Cardinality(DOMAIN ages) = 2

\* C11: every stored address and person has the id it is stored under, and a
\* PATCH of a stored record changes neither the keys of the table nor the id
\* of the record, whatever its body carries.
C11_IdsImmutable ==
    /\ \A k \in DOMAIN addresses : addresses[k].id = k
    /\ \A k \in DOMAIN persons : persons[k].id = k
    /\ (req.op = "update_address" /\ req.key \in DOMAIN before.addresses) =>
          /\ DOMAIN addresses = DOMAIN before.addresses
          /\ addresses[req.key].id = before.addresses[req.key].id
    /\ (req.op = "update_person" /\ req.key \in DOMAIN before.persons) =>
          /\ DOMAIN persons = DOMAIN before.persons
          /\ persons[req.key].id = before.persons[req.key].id

\* A PATCH whose body named another id and a new street changed the street of
\* a stored address.
C11_Witness ==
    /\ req.op = "update_address"
    /\ req.key \in DOMAIN before.addresses
    /\ resp.status = 200
    /\ {"id", "street"} \subseteq DOMAIN req.payload
    /\ req.payload.id # req.key
    /\ addresses[req.key].street # before.addresses[req.key].street
    /\ persons # Empty

\* C12: a request changes at most one key, of the table it addresses; a List,
\* a Get, a health or root request, and any request answered with an error,
\* changes no key of any table.
C12_AtMostOneRecord ==
    ~Idle =>
        LET changed ==
                {tk \in UNION {{<<t, k>> : k \in DOMAIN Tables[t] \cup DOMAIN before[t]} :
                                  t \in DOMAIN Tables} :
                    \/ tk[2] \notin DOMAIN Tables[tk[1]]
                    \/ tk[2] \notin DOMAIN before[tk[1]]
                    \/ Tables[tk[1]][tk[2]] # before[tk[1]][tk[2]]}
        IN  /\ Cardinality(changed) <= 1
            /\ \A tk \in changed : tk[1] = TableOf(req.op)
            /\ (req.op \in ReadOps \/ ~Succeeded(resp)) => changed = {}

\* A Delete removed one of two stored jobs while the other three tables hold
\* two records each.
C12_Witness ==
    /\ req.op = "delete_job"
    /\ resp.status = 204
    /\ Cardinality(DOMAIN before.jobs) = 2
    /\ Cardinality(DOMAIN jobs) = 1
    /\ Cardinality(DOMAIN addresses) = 2
    /\ Cardinality(DOMAIN persons) = 2
    /\ Cardinality(DOMAIN ages) = 2

\* C13: a PATCH whose path names an id that is not stored, in the address or
\* the person table, is answered 404 and leaves that table as it was.
C13_PatchAbsent ==
    /\ (req.op = "update_address" /\ req.key \notin DOMAIN before.addresses) =>
          /\ resp.status = 404
          /\ addresses = before.addresses
    /\ (req.op = "update_person" /\ req.key \notin DOMAIN before.persons) =>
          /\ resp.status = 404
          /\ persons = before.persons

\* A PATCH carrying a change for person p2 arrived while only p1 was stored.
C13_Witness ==
    /\ req.op = "update_person"
    /\ req.key = "p2"
    /\ DOMAIN before.persons = {"p1"}
    /\ "first_name" \in DOMAIN req.payload
    /\ resp.status = 404
    /\ persons = before.persons

\* C14: no step removes a key of the address or of the person table, and once
\* a Get of an id has been answered 200 no later Get of that id is answered 404.
C14_NeverRemoved ==
    /\ [][/\ DOMAIN addresses \subseteq DOMAIN addresses'
          /\ DOMAIN persons \subseteq DOMAIN persons']_vars
    /\ \A op \in {"get_address", "get_person"} : \A id \in AddressIds \cup PersonIds :
          []((req.op = op /\ req.key = id /\ resp.status = 200)
                => [](~(req.op = op /\ req.key = id /\ resp.status = 404)))

\* A Get of a person is answered 200 after a PATCH of that person has set a
\* field to null.
C14_Witness ==
    /\ req.op = "get_person"
    /\ resp.status = 200
    /\ persons[req.key].first_name = NULL
    /\ DOMAIN addresses = AddressIds

\* C17: every Age is stored under its own person_name and every Job under the
\* text of its own id, whatever Creates, Replaces and Deletes have run.
C17_KeyMatchesRecord ==
    /\ \A k \in DOMAIN ages : ages[k].person_name = k
    /\ \A k \in DOMAIN jobs : UuidStr(jobs[k].id) = k

\* A Replace has overwritten a stored Job, and an upper-case path was refused,
\* after Creates and a Delete: here the Replace of job "a" changed its title
\* while an Age is stored and another was deleted.
C17_Witness ==
    /\ req.op = "replace_job"
    /\ resp.status = 200
    /\ req.key \in DOMAIN before.jobs
    /\ jobs[req.key] # before.jobs[req.key]
    /\ DOMAIN jobs = {"a", "b"}
    /\ DOMAIN ages = {"ada"}

\* C15: when two PATCHes of one address carry disjoint fields and both have
\* read the record before either wrote, then once both have written the stored
\* record is the record the later writer read with the later writer's fields
\* alone: the fields of the earlier writer's update are as the later writer
\* read them.
C15_LostUpdate ==
    \A v \in Workers : \A w \in Workers :
        (/\ threads[v].op = "update_address"
         /\ threads[w].op = "update_address"
         /\ threads[v].key = threads[w].key
         /\ threads[v].raced = "first"
         /\ threads[w].raced = "second"
         /\ threads[v].pc \in {"return", "done"}
         /\ threads[w].pc \in {"return", "done"}
         /\ threads[w].resp.status # 500
         /\ DOMAIN AddressUpdate(threads[v].body)
               \cap DOMAIN AddressUpdate(threads[w].body) = {})
        => /\ addresses[threads[w].key]
                = DictUpdate(threads[w].read, AddressUpdate(threads[w].body))
           /\ \A f \in DOMAIN AddressUpdate(threads[v].body) :
                addresses[threads[w].key][f] = threads[w].read[f]

\* Both PATCHes were answered 200, one set the street and the other the city
\* of the same record that both had read, and the stored record has the new
\* city but the old street.
C15_Witness ==
    \E v \in Workers : \E w \in Workers :
        /\ threads[v].op = "update_address"
        /\ threads[w].op = "update_address"
        /\ threads[v].key = threads[w].key
        /\ threads[v].raced = "first"
        /\ threads[w].raced = "second"
        /\ threads[v].pc = "done"
        /\ threads[w].pc = "done"
        /\ threads[v].resp.status = 200
        /\ threads[w].resp.status = 200
        /\ threads[v].read = threads[w].read
        /\ threads[v].body = [street |-> "B"]
        /\ threads[w].body = [city |-> "B"]
        /\ threads[v].read.street = "A"
        /\ addresses[threads[w].key].street = "A"
        /\ addresses[threads[w].key].city = "B"

\* C16: when two Creates of one address id have both passed the existence
\* check before either stored, both are answered 201, neither 400, and the
\* table holds the record of the one that stored later.
C16_DuplicateCreate ==
    \A v \in Workers : \A w \in Workers :
        (/\ threads[v].op = "create_address"
         /\ threads[w].op = "create_address"
         /\ threads[v].key = threads[w].key
         /\ threads[v].raced = "first"
         /\ threads[w].raced = "second"
         /\ threads[v].pc \in {"return", "done"}
         /\ threads[w].pc \in {"return", "done"})
        => /\ addresses[threads[w].key] = threads[w].body
           /\ threads[v].pc = "done" => threads[v].resp.status = 201
           /\ threads[w].pc = "done" => threads[w].resp.status = 201

\* Two Creates of one id with different streets were both answered 201 and
\* the table holds the later one's street.
C16_Witness ==
    \E v \in Workers : \E w \in Workers :
        /\ threads[v].op = "create_address"
        /\ threads[w].op = "create_address"
        /\ threads[v].key = threads[w].key
        /\ threads[v].raced = "first"
        /\ threads[w].raced = "second"
        /\ threads[v].resp.status = 201
        /\ threads[w].resp.status = 201
        /\ threads[v].body.street # threads[w].body.street
        /\ addresses[threads[w].key] = threads[w].body
        /\ addresses[threads[w].key] # threads[v].body

====
